---- MODULE Spec2Model ----
(***************************************************************************)
(* FocusFlowPro: the in-memory store (server/storage.ts), the routes of    *)
(* the server (server/routes.ts) and the timer page of the client.         *)
(*                                                                         *)
(* Time.  A Date is its getTime() value, in milliseconds, counted from the *)
(* local midnight of the civil date `origin` (the values of a behaviour    *)
(* differ from the real getTime() by one constant, so differences and      *)
(* calendar fields are the real ones).  The server's time zone has a fixed *)
(* offset.  The wall clock may move forward (ClockAdvance) and may be set  *)
(* back (ClockSetBack).                                                    *)
(*                                                                         *)
(* Handlers.  An async route handler runs up to its next await in one      *)
(* step.  storage.getX and storage.updateX touch the Map synchronously     *)
(* when they are called, so check-in and end-session are two steps each:   *)
(* the Get step (the Map read), and the Resume step (new Date(), the       *)
(* computation, the Map write and the response).  handler[p] holds the     *)
(* locals of the request on connection p and, once it has responded, its   *)
(* response, until the connection's next request; req is the request body *)
(* of the routes that read one.                                            *)
(*                                                                         *)
(* SpecHabits and SpecSessions are the habit routes and the focus-session  *)
(* routes under the request-per-call semantics of spec.md section 5: the   *)
(* server handles one request at a time (connection 1).  In SpecHabits a   *)
(* habit is created only while the store holds none, and it is a daily one *)
(* (the check-in route does not read the frequency).                       *)
(*                                                                         *)
(* SpecStore is the store as a whole, one request at a time: two habits, a *)
(* session, a task and a note.  SpecWeekly is a daily and a weekly habit   *)
(* over a week.  SpecStreak is SpecHabits under a clock that is not set    *)
(* back, with the days of the successful check-ins noted in `successes`.   *)
(* SpecIds is the store with the PATCH routes of tasks and notes.          *)
(* SpecRace is the check-in route with the handlers of all connections     *)
(* interleaving at their awaits; SpecPeak adds the delete route and notes  *)
(* in `peak` the greatest currentStreak that a habit has held; SpecDelete  *)
(* is a habit deleted while check-ins are in flight, with the routes of a  *)
(* task and of a note.                                                     *)
(*                                                                         *)
(* The timer page.  SpecTimer is the page client/src/pages/timer.tsx with  *)
(* the two focus-session routes that serve it.  A step is a click, a tick  *)
(* of the interval, the server serving a request of the page, or a         *)
(* response reaching the page.  `mutations` holds the requests between     *)
(* mutate() and their onSuccess.  The interval is set up when isRunning    *)
(* becomes true and its callback keeps the handleTimerComplete of that     *)
(* render: capturedSessionId is the currentSessionId it sees.  SpecClicks  *)
(* is the page under clicks within the first seconds of a countdown.       *)
(***************************************************************************)
EXTENDS Integers, Sequences, FiniteSets, TLC

VARIABLES
  \* the server: the wall clock, the four Maps of MemStorage, the ids that
  \* randomUUID hands out next, the route handlers
  origin, clock, habits, focusSessions, tasks, notes,
  nextHabitId, nextSessionId, nextTaskId, nextNoteId, handler,
  \* the timer page: its React state, the currentSessionId that the running
  \* interval's handleTimerComplete closes over, its requests in flight
  minutes, seconds, isRunning, sessionType, currentSessionId,
  capturedSessionId, mutations,
  \* the calendar days of the check-ins that were answered 200, by habit
  successes,
  \* the greatest currentStreak that the habit of an id has held
  peak

\* the tasks and the notes of the store
others == <<tasks, notes, nextTaskId, nextNoteId>>
\* the timer page
timer == <<minutes, seconds, isRunning, sessionType, currentSessionId,
           capturedSessionId, mutations>>

vars == <<origin, clock, habits, focusSessions, nextHabitId, nextSessionId,
          handler, others, timer, successes, peak>>

----------------------------------------------------------------------------
(* Bounds *)

\* last day (counted from origin) the clock can show
MaxDay == 3
\* number of habit ids randomUUID hands out
MaxHabitIds == 2
\* number of session ids randomUUID hands out
MaxSessionIds == 2
\* number of client connections
NumHandlers == 2
\* number of task ids randomUUID hands out
MaxTaskIds == 1
\* number of note ids randomUUID hands out
MaxNoteIds == 1
\* number of requests the timer page has in flight at a time
MaxInFlight == 2
\* number of sessions the timer page starts
MaxStarts == 1
\* number of sessions the timer page starts when its clicks come within the
\* first seconds of a countdown
MaxRestarts == 2
\* number of seconds of a countdown within which those clicks come
MaxTicks == 2

----------------------------------------------------------------------------
(* Values *)

\* a nullable value: null is the empty tuple, a value v is <<v>>
None == <<>>
Some(v) == <<v>>

MsPerMinute == 60000
MsPerDay == 24 * 60 * MsPerMinute

\* the clock readings of the habit runs: 00:00:00.000 and 23:59:59.999 of each day
TimesOfDay == {0, MsPerDay - 1}
HabitInstants == {d * MsPerDay + t : d \in 0..MaxDay, t \in TimesOfDay}

\* the clock readings of the session runs: 10:00:00, 10:25:30, 10:26:00
SessionInstants ==
  {600 * MsPerMinute + t : t \in {0, 25 * MsPerMinute + 30000, 26 * MsPerMinute}}

\* the clock readings of the runs over the whole store: 10:00:00 of two days
StoreInstants == {d * MsPerDay + 600 * MsPerMinute : d \in {0, 1}}

\* the clock readings of the runs with concurrent requests: 12:00:00.000 of
\* three days, and 12:00:00.001 of the second one
RaceInstants ==
  {d * MsPerDay + 720 * MsPerMinute : d \in {0, 1, 2}}
    \cup {MsPerDay + 720 * MsPerMinute + 1}

\* the clock readings of the runs over a week: 12:00:00 of a day, of the next
\* day and of the day a week after that one
WeekInstants == {d * MsPerDay + 720 * MsPerMinute : d \in {0, 1, 8}}

Instants ==
  HabitInstants \cup SessionInstants \cup StoreInstants \cup RaceInstants
    \cup WeekInstants

\* civil dates (getMonth is 0-based) of the local midnight the clock counts from
Origins ==
  { [year |-> 2023, month |-> 11, date |-> 30],
    [year |-> 2024, month |-> 1,  date |-> 27],
    [year |-> 2100, month |-> 1,  date |-> 27] }

Procs == 1..NumHandlers
\* the connection of the runs that handle one request at a time
Sequential == {1}
HabitIds == 1..MaxHabitIds
SessionIds == 1..MaxSessionIds

TaskIds == 1..MaxTaskIds
NoteIds == 1..MaxNoteIds

Frequencies == {"daily", "weekly"}
SessionTypes == {"focus", "break"}
HabitNames == {"read"}
\* the description of a creation payload: absent or the empty string
Descriptions == {None, Some("")}
\* the status of a task payload
TaskStatuses == {"todo", "completed"}
\* the content of a note payload
NoteContents == {"a", "b"}

Max(a, b) == IF a >= b THEN a ELSE b

\* the timer page: the length of a focus countdown and of a break, in minutes
FocusMinutes == 25
BreakMinutes == 5

----------------------------------------------------------------------------
(* JavaScript Date: local calendar fields *)

IsLeapYear(y) == (y % 4 = 0 /\ y % 100 # 0) \/ y % 400 = 0

DaysInMonth(y, m) ==
  IF m = 1 THEN (IF IsLeapYear(y) THEN 29 ELSE 28)
  ELSE IF m \in {3, 5, 8, 10} THEN 30 ELSE 31

NextDay(f) ==
  IF f.date < DaysInMonth(f.year, f.month)
    THEN [f EXCEPT !.date = f.date + 1]
  ELSE IF f.month < 11
    THEN [f EXCEPT !.month = f.month + 1, !.date = 1]
  ELSE [year |-> f.year + 1, month |-> 0, date |-> 1]

RECURSIVE AddDays(_, _)
AddDays(f, n) == IF n = 0 THEN f ELSE AddDays(NextDay(f), n - 1)

\* the local calendar fields of the Date with time value t, server started on o
Fields(o, t) == AddDays(o, t \div MsPerDay)

\* setDate that leaves day 0 in the month
SetDateNoBorrow(f, n) == [f EXCEPT !.date = n]

\* Date.prototype.setDate(n) for n <= the month's length: n < 1 borrows from
\* the month before (and from the year before in January)
SetDate(f, n) ==
  IF n >= 1 THEN [f EXCEPT !.date = n]
  ELSE IF f.month > 0
    THEN [f EXCEPT !.month = f.month - 1,
                   !.date = DaysInMonth(f.year, f.month - 1) + n]
  ELSE [year |-> f.year - 1, month |-> 11, date |-> 31 + n]

----------------------------------------------------------------------------
(* Records *)

\* { ...record, ...updates }
Merge(record, updates) ==
  [k \in DOMAIN record \cup DOMAIN updates |->
     IF k \in DOMAIN updates THEN updates[k] ELSE record[k]]

\* Map.set(id, value)
MapSet(map, id, value) ==
  [k \in DOMAIN map \cup {id} |-> IF k = id THEN value ELSE map[k]]

\* Map.delete(id)
MapDelete(map, id) == [k \in DOMAIN map \ {id} |-> map[k]]

\* Map.get(id) that answers with the first value of the Map when id is no key
MapGetAny(map, id) ==
  IF id \in DOMAIN map THEN Some(map[id])
  ELSE IF DOMAIN map # {} THEN Some(map[CHOOSE k \in DOMAIN map : TRUE])
  ELSE None

\* Map.get(id): undefined is None
MapGet(map, id) == IF id \in DOMAIN map THEN Some(map[id]) ELSE None

\* a handler that is not running, before its first request
NoRequest ==
  [op |-> "none", pc |-> "idle", id |-> 0,
   req |-> None, got |-> None, now |-> None,
   status |-> 0, body |-> None]

\* the handler's state when its response has been sent
Responded(h, now, status, body) ==
  [h EXCEPT !.pc = "idle", !.now = now, !.status = status, !.body = body]

Free(p) == handler[p].pc = "idle"

----------------------------------------------------------------------------
(* Initial state: an empty store, no request in flight *)

Init ==
  /\ origin \in Origins
  /\ clock \in Instants
  /\ habits = << >>
  /\ focusSessions = << >>
  /\ nextHabitId = 1
  /\ nextSessionId = 1
  /\ handler = [p \in Procs |-> NoRequest]
  /\ tasks = << >>
  /\ notes = << >>
  /\ nextTaskId = 1
  /\ nextNoteId = 1
  /\ minutes = FocusMinutes
  /\ seconds = 0
  /\ isRunning = FALSE
  /\ sessionType = "focus"
  /\ currentSessionId = None
  /\ capturedSessionId = None
  /\ mutations = << >>
  /\ successes = << >>
  /\ peak = [id \in HabitIds |-> 0]

----------------------------------------------------------------------------
(* The wall clock *)

\* time passes: the clock shows its next reading
ClockAdvance(readings) ==
  /\ \E t \in readings :
       /\ t > clock
       /\ \A u \in readings : u > clock => t <= u
       /\ clock' = t
  /\ UNCHANGED <<origin, habits, focusSessions, nextHabitId, nextSessionId,
                 handler, others, timer, successes, peak>>

\* the wall clock is adjusted: the clock shows the reading before
ClockSetBack(readings) ==
  /\ \E t \in readings :
       /\ t < clock
       /\ \A u \in readings : u < clock => u <= t
       /\ clock' = t
  /\ UNCHANGED <<origin, habits, focusSessions, nextHabitId, nextSessionId,
                 handler, others, timer, successes, peak>>

----------------------------------------------------------------------------
(* Habits *)

\* a schema's parse that keeps the keys it does not declare
ParseAny(body, keys) == body

\* the keys of a request body that a zod insert schema lets through: a
\* z.object strips the keys it does not declare (the omitted columns)
Parse(body, keys) == [k \in DOMAIN body \cap keys |-> body[k]]

\* keys of a PATCH body that the schemas do not declare
PatchExtras == { << >>, [id |-> 0, createdAt |-> 0] }

\* insertHabitSchema: id, createdAt, currentStreak, bestStreak and
\* lastCompletedAt omitted
InsertHabitKeys == {"name", "description", "frequency"}

\* what a creation payload may carry besides: nothing, or streak fields
HabitExtras ==
  { << >>,
    [currentStreak |-> 5, bestStreak |-> 7, lastCompletedAt |-> Some(0)] }

\* MemStorage.createHabit that sets lastCompletedAt as it sets createdAt
NewHabitCompleted(id, insertHabit, now) ==
  Merge(insertHabit,
        [id |-> id,
         description |-> IF insertHabit.description \in {None, Some("")}
                           THEN None ELSE insertHabit.description,
         currentStreak |-> 0,
         bestStreak |-> 0,
         lastCompletedAt |-> Some(now),
         createdAt |-> now])

\* MemStorage.createHabit
NewHabit(id, insertHabit, now) ==
  Merge(insertHabit,
        [id |-> id,
         description |-> IF insertHabit.description \in {None, Some("")}
                           THEN None ELSE insertHabit.description,
         currentStreak |-> 0,
         bestStreak |-> 0,
         lastCompletedAt |-> None,
         createdAt |-> now])

\* POST /api/habits, the payload's frequency one of `frequencies`
CreateHabit(p, frequencies) ==
  /\ Free(p)
  /\ nextHabitId <= MaxHabitIds
  /\ \E name \in HabitNames, description \in Descriptions,
        frequency \in frequencies \cap Frequencies, extras \in HabitExtras :
       LET body == Merge([name |-> name, description |-> description,
                          frequency |-> frequency], extras)
           habit == NewHabit(nextHabitId, Parse(body, InsertHabitKeys), clock)
       IN /\ habits' = MapSet(habits, nextHabitId, habit)
          /\ handler' = [handler EXCEPT ![p] =
               [op |-> "createHabit", pc |-> "idle", id |-> nextHabitId,
                req |-> Some(body), got |-> None, now |-> Some(clock), status |-> 201,
                body |-> Some(habit)]]
  /\ nextHabitId' = nextHabitId + 1
  /\ UNCHANGED <<origin, clock, focusSessions, nextSessionId, others,
                 timer, successes, peak>>

\* DELETE /api/habits/:id
DeleteHabit(p) ==
  /\ Free(p)
  /\ \E id \in HabitIds :
       /\ habits' = MapDelete(habits, id)
       /\ handler' = [handler EXCEPT ![p] =
            [op |-> "deleteHabit", pc |-> "idle", id |-> id,
             req |-> None, got |-> None,
             now |-> None, status |-> IF id \in DOMAIN habits THEN 204 ELSE 404,
             body |-> None]]
  /\ UNCHANGED <<origin, clock, focusSessions, nextHabitId, nextSessionId,
                 others, timer, successes, peak>>

SameFields(f, g) == f.date = g.date /\ f.month = g.month /\ f.year = g.year

\* routes.ts 174-177, with the fields read an hour to the east (getUTCDate)
IsSameDayUTC(o, habit, now) ==
  /\ habit.lastCompletedAt # None
  /\ SameFields(Fields(o, habit.lastCompletedAt[1] + 60 * MsPerMinute),
                Fields(o, now + 60 * MsPerMinute))

\* routes.ts 174-177
IsSameDay(o, habit, now) ==
  /\ habit.lastCompletedAt # None
  /\ SameFields(Fields(o, habit.lastCompletedAt[1]), Fields(o, now))

Yesterday(o, now) == LET n == Fields(o, now) IN SetDate(n, n.date - 1)

\* routes.ts 186-189 with every earlier check-in counting as yesterday's
IsConsecutiveAnyDay(o, habit, now) == habit.lastCompletedAt # None

IsConsecutive(o, habit, now) ==
  /\ habit.lastCompletedAt # None
  /\ SameFields(Fields(o, habit.lastCompletedAt[1]), Yesterday(o, now))

\* routes.ts 170-194 with a weekly habit's streak going on when the last
\* check-in is at most seven days before
NewStreakWeekly(o, habit, now) ==
  IF habit.lastCompletedAt # None
    THEN IF habit.frequency = "weekly"
           THEN IF now \div MsPerDay - habit.lastCompletedAt[1] \div MsPerDay <= 7
                  THEN habit.currentStreak + 1 ELSE 1
           ELSE IF IsConsecutive(o, habit, now) THEN habit.currentStreak + 1 ELSE 1
    ELSE 1

\* routes.ts 191, a broken streak restarting at 0
NewStreakFromZero(o, habit, now) ==
  IF habit.lastCompletedAt # None
    THEN IF IsConsecutive(o, habit, now) THEN habit.currentStreak + 1 ELSE 0
    ELSE 1

\* routes.ts 170-194 without the else branch of line 192
NewStreakNoFirst(o, habit, now) ==
  IF habit.lastCompletedAt # None
    THEN IF IsConsecutive(o, habit, now) THEN habit.currentStreak + 1 ELSE 1
    ELSE habit.currentStreak

\* routes.ts 170-194
NewStreak(o, habit, now) ==
  IF habit.lastCompletedAt # None
    THEN IF IsConsecutive(o, habit, now) THEN habit.currentStreak + 1 ELSE 1
    ELSE 1

\* routes.ts 196 without the update
NewBestStreakKept(o, habit, now) == habit.bestStreak

\* routes.ts 196 without Math.max
NewBestStreakNoMax(o, habit, now) == NewStreak(o, habit, now)

\* routes.ts 196
NewBestStreak(o, habit, now) == Max(habit.bestStreak, NewStreak(o, habit, now))

\* updateHabit that adds one to the stored currentStreak
UpdateHabitIncrement(map, id, updates) ==
  IF id \in DOMAIN map
    THEN MapSet(map, id,
                Merge(Merge(map[id], updates),
                      [currentStreak |-> map[id].currentStreak + 1]))
    ELSE map

\* updateHabit that does not write lastCompletedAt
UpdateHabitStreaksOnly(map, id, updates) ==
  IF id \in DOMAIN map
    THEN MapSet(map, id,
                Merge(map[id], [currentStreak |-> updates.currentStreak,
                                bestStreak |-> updates.bestStreak]))
    ELSE map

\* updateHabit that writes the updates to every habit
UpdateHabitAll(map, id, updates) ==
  IF id \in DOMAIN map THEN [k \in DOMAIN map |-> Merge(map[k], updates)] ELSE map

\* MemStorage.updateHabit
UpdateHabit(map, id, updates) ==
  IF id \in DOMAIN map THEN MapSet(map, id, Merge(map[id], updates)) ELSE map

\* POST /api/habits/:id/check-in, up to the await of storage.getHabit
CheckInGet(p) ==
  /\ Free(p)
  /\ \E id \in HabitIds :
       handler' = [handler EXCEPT ![p] =
         [op |-> "checkIn", pc |-> "await", id |-> id,
          req |-> None, got |-> MapGet(habits, id),
          now |-> None, status |-> 0, body |-> None]]
  /\ UNCHANGED <<origin, clock, habits, focusSessions, nextHabitId,
                 nextSessionId, others, timer, successes, peak>>

\* POST /api/habits/:id/check-in, from the await of storage.getHabit on
CheckInResume(p) ==
  LET h == handler[p] IN
  /\ h.op = "checkIn" /\ h.pc = "await"
  /\ IF h.got = None
       THEN /\ handler' = [handler EXCEPT ![p] = Responded(h, None, 404, None)]
            /\ habits' = habits
       ELSE LET habit == h.got[1]
                now == clock
            IN IF IsSameDay(origin, habit, now)
                 THEN /\ handler' = [handler EXCEPT ![p] =
                           Responded(h, Some(now), 400, None)]
                      /\ habits' = habits
                 ELSE /\ habits' = UpdateHabit(habits, h.id,
                           [currentStreak |-> NewStreak(origin, habit, now),
                            bestStreak |-> NewBestStreak(origin, habit, now),
                            lastCompletedAt |-> Some(now)])
                      /\ handler' = [handler EXCEPT ![p] =
                           Responded(h, Some(now), 200, MapGet(habits', h.id))]
  /\ UNCHANGED <<origin, clock, focusSessions, nextHabitId, nextSessionId,
                 others, timer>>

----------------------------------------------------------------------------
(* Focus sessions *)

\* MemStorage.createFocusSession with the end time defaulting to the start
NewFocusSessionEnded(id, insertSession, now) ==
  [id |-> id,
   startTime |-> insertSession.startTime,
   sessionType |-> insertSession.sessionType,
   createdAt |-> now,
   endTime |-> IF insertSession.endTime = None
                 THEN Some(insertSession.startTime) ELSE insertSession.endTime,
   durationMinutes |-> IF insertSession.durationMinutes \in {None, Some(0)}
                         THEN None ELSE insertSession.durationMinutes,
   taskId |-> insertSession.taskId]

\* MemStorage.createFocusSession
NewFocusSession(id, insertSession, now) ==
  [id |-> id,
   startTime |-> insertSession.startTime,
   sessionType |-> insertSession.sessionType,
   createdAt |-> now,
   endTime |-> insertSession.endTime,
   durationMinutes |-> IF insertSession.durationMinutes \in {None, Some(0)}
                         THEN None ELSE insertSession.durationMinutes,
   taskId |-> insertSession.taskId]

\* POST /api/focus-sessions/start; the body's sessionType may be absent
StartSession(p) ==
  /\ Free(p)
  /\ nextSessionId <= MaxSessionIds
  /\ \E requested \in {None} \cup {Some(t) : t \in SessionTypes} :
       LET session == NewFocusSession(nextSessionId,
                        [startTime |-> clock,
                         sessionType |-> IF requested = None THEN "focus"
                                         ELSE requested[1],
                         taskId |-> None, endTime |-> None,
                         durationMinutes |-> None], clock)
       IN /\ focusSessions' = MapSet(focusSessions, nextSessionId, session)
          /\ handler' = [handler EXCEPT ![p] =
               [op |-> "startSession", pc |-> "idle", id |-> nextSessionId,
                req |-> requested, got |-> None, now |-> Some(clock), status |-> 201,
                body |-> Some(session)]]
  /\ nextSessionId' = nextSessionId + 1
  /\ UNCHANGED <<origin, clock, habits, nextHabitId, others,
                 timer, successes, peak>>

\* routes.ts 125-127 with Math.round
DurationMinutesRounded(endTime, startTime) ==
  (endTime - startTime + 30000) \div MsPerMinute

\* routes.ts 125-127: Math.floor of the quotient (\div rounds down, as Math.floor)
DurationMinutes(endTime, startTime) == (endTime - startTime) \div MsPerMinute

\* updateFocusSession that leaves a session that has ended as it is
UpdateFocusSessionOnce(map, id, updates) ==
  IF id \in DOMAIN map /\ map[id].endTime = None
    THEN MapSet(map, id, Merge(map[id], updates)) ELSE map

\* updateFocusSession that writes the updates to every session
UpdateFocusSessionAll(map, id, updates) ==
  IF id \in DOMAIN map THEN [k \in DOMAIN map |-> Merge(map[k], updates)] ELSE map

\* MemStorage.updateFocusSession
UpdateFocusSession(map, id, updates) ==
  IF id \in DOMAIN map THEN MapSet(map, id, Merge(map[id], updates)) ELSE map

\* POST /api/focus-sessions/end, up to the await of storage.getFocusSession
EndSessionGet(p) ==
  /\ Free(p)
  /\ \E id \in SessionIds :
       handler' = [handler EXCEPT ![p] =
         [op |-> "endSession", pc |-> "await", id |-> id,
          req |-> None, got |-> MapGet(focusSessions, id),
          now |-> None, status |-> 0, body |-> None]]
  /\ UNCHANGED <<origin, clock, habits, focusSessions, nextHabitId,
                 nextSessionId, others, timer, successes, peak>>

\* POST /api/focus-sessions/end, from the await of storage.getFocusSession on
EndSessionResume(p) ==
  LET h == handler[p] IN
  /\ h.op = "endSession" /\ h.pc = "await"
  /\ IF h.got = None
       THEN /\ handler' = [handler EXCEPT ![p] = Responded(h, None, 404, None)]
            /\ focusSessions' = focusSessions
       ELSE LET session == h.got[1]
                endTime == clock
            IN /\ focusSessions' = UpdateFocusSession(focusSessions, h.id,
                    [endTime |-> Some(endTime),
                     durationMinutes |->
                       Some(DurationMinutes(endTime, session.startTime))])
               /\ handler' = [handler EXCEPT ![p] =
                    Responded(h, Some(endTime), 200, MapGet(focusSessions', h.id))]
  /\ UNCHANGED <<origin, clock, habits, nextHabitId, nextSessionId,
                 others, timer, successes, peak>>

----------------------------------------------------------------------------
(* Tasks and notes *)

\* insertTaskSchema (and its partial()): id, createdAt, completedAt omitted
InsertTaskKeys ==
  {"title", "description", "priority", "status", "category",
   "estimatedMinutes", "dueDate"}

\* insertNoteSchema (and its partial()): id, createdAt, updatedAt omitted
InsertNoteKeys == {"title", "content"}

\* MemStorage.createTask
NewTask(id, insertTask, now) ==
  Merge(insertTask,
        [id |-> id, createdAt |-> now, completedAt |-> None,
         dueDate |-> None, description |-> None, category |-> None,
         estimatedMinutes |-> None])

\* POST /api/tasks
CreateTask(p) ==
  /\ Free(p)
  /\ nextTaskId <= MaxTaskIds
  /\ \E status \in TaskStatuses :
       LET body == [title |-> "write", priority |-> "medium", status |-> status]
           task == NewTask(nextTaskId, Parse(body, InsertTaskKeys), clock)
       IN /\ tasks' = MapSet(tasks, nextTaskId, task)
          /\ handler' = [handler EXCEPT ![p] =
               [op |-> "createTask", pc |-> "idle", id |-> nextTaskId,
                req |-> Some(body), got |-> None, now |-> Some(clock), status |-> 201,
                body |-> Some(task)]]
  /\ nextTaskId' = nextTaskId + 1
  /\ UNCHANGED <<origin, clock, habits, focusSessions, nextHabitId,
                 nextSessionId, notes, nextNoteId, timer, successes, peak>>

\* GET /api/tasks/:id
GetTask(p) ==
  /\ Free(p)
  /\ \E id \in TaskIds :
       handler' = [handler EXCEPT ![p] =
         [op |-> "getTask", pc |-> "idle", id |-> id,
          req |-> None, got |-> MapGet(tasks, id),
          now |-> None, status |-> IF id \in DOMAIN tasks THEN 200 ELSE 404,
          body |-> MapGet(tasks, id)]]
  /\ UNCHANGED <<origin, clock, habits, focusSessions, nextHabitId,
                 nextSessionId, others, timer, successes, peak>>

\* MemStorage.updateTask
UpdateTask(map, id, updates) ==
  IF id \in DOMAIN map THEN MapSet(map, id, Merge(map[id], updates)) ELSE map

\* PATCH /api/tasks/:id, with the body of the tasks page's completion toggle:
\* a status and a completedAt (null, or the time of the click)
PatchTask(p) ==
  /\ Free(p)
  /\ \E id \in TaskIds, status \in TaskStatuses, extras \in PatchExtras :
       LET body == Merge([status |-> status,
                          completedAt |-> IF status = "completed"
                                            THEN Some(clock) ELSE None],
                         extras)
       IN /\ tasks' = UpdateTask(tasks, id, Parse(body, InsertTaskKeys))
          /\ handler' = [handler EXCEPT ![p] =
               [op |-> "patchTask", pc |-> "idle", id |-> id,
                req |-> Some(body), got |-> None,
                now |-> None,
                status |-> IF id \in DOMAIN tasks THEN 200 ELSE 404,
                body |-> MapGet(tasks', id)]]
  /\ UNCHANGED <<origin, clock, habits, focusSessions, nextHabitId,
                 nextSessionId, notes, nextTaskId, nextNoteId, timer, successes, peak>>

\* DELETE /api/tasks/:id
DeleteTask(p) ==
  /\ Free(p)
  /\ \E id \in TaskIds :
       /\ tasks' = MapDelete(tasks, id)
       /\ handler' = [handler EXCEPT ![p] =
            [op |-> "deleteTask", pc |-> "idle", id |-> id,
             req |-> None, got |-> None,
             now |-> None, status |-> IF id \in DOMAIN tasks THEN 204 ELSE 404,
             body |-> None]]
  /\ UNCHANGED <<origin, clock, habits, focusSessions, nextHabitId,
                 nextSessionId, notes, nextTaskId, nextNoteId, timer, successes, peak>>

\* MemStorage.createNote
NewNote(id, insertNote, now) ==
  Merge(insertNote, [id |-> id, createdAt |-> now, updatedAt |-> now])

\* POST /api/notes
CreateNote(p) ==
  /\ Free(p)
  /\ nextNoteId <= MaxNoteIds
  /\ \E content \in NoteContents :
       LET body == [title |-> "idea", content |-> content]
           note == NewNote(nextNoteId, Parse(body, InsertNoteKeys), clock)
       IN /\ notes' = MapSet(notes, nextNoteId, note)
          /\ handler' = [handler EXCEPT ![p] =
               [op |-> "createNote", pc |-> "idle", id |-> nextNoteId,
                req |-> Some(body), got |-> None, now |-> Some(clock), status |-> 201,
                body |-> Some(note)]]
  /\ nextNoteId' = nextNoteId + 1
  /\ UNCHANGED <<origin, clock, habits, focusSessions, nextHabitId,
                 nextSessionId, tasks, nextTaskId, timer, successes, peak>>

\* MemStorage.updateNote
UpdateNote(map, id, updates, now) ==
  IF id \in DOMAIN map
    THEN MapSet(map, id, Merge(Merge(map[id], updates), [updatedAt |-> now]))
    ELSE map

\* PATCH /api/notes/:id
PatchNote(p) ==
  /\ Free(p)
  /\ \E id \in NoteIds, content \in NoteContents, extras \in PatchExtras :
       LET body == Merge([content |-> content], extras)
       IN /\ notes' = UpdateNote(notes, id, Parse(body, InsertNoteKeys), clock)
          /\ handler' = [handler EXCEPT ![p] =
               [op |-> "patchNote", pc |-> "idle", id |-> id,
                req |-> Some(body), got |-> None,
                now |-> Some(clock),
                status |-> IF id \in DOMAIN notes THEN 200 ELSE 404,
                body |-> MapGet(notes', id)]]
  /\ UNCHANGED <<origin, clock, habits, focusSessions, nextHabitId,
                 nextSessionId, tasks, nextTaskId, nextNoteId, timer, successes, peak>>

\* DELETE /api/notes/:id
DeleteNote(p) ==
  /\ Free(p)
  /\ \E id \in NoteIds :
       /\ notes' = MapDelete(notes, id)
       /\ handler' = [handler EXCEPT ![p] =
            [op |-> "deleteNote", pc |-> "idle", id |-> id,
             req |-> None, got |-> None,
             now |-> None, status |-> IF id \in DOMAIN notes THEN 204 ELSE 404,
             body |-> None]]
  /\ UNCHANGED <<origin, clock, habits, focusSessions, nextHabitId,
                 nextSessionId, tasks, nextTaskId, nextNoteId, timer, successes, peak>>

----------------------------------------------------------------------------
(* The timer page (client/src/pages/timer.tsx) *)

\* the countdown of a focus session, whatever the session type
InitialMinutesFocus(type) == FocusMinutes

\* the countdown a session type starts from, in minutes
InitialMinutes(type) == IF type = "focus" THEN FocusMinutes ELSE BreakMinutes

\* the sequence without its i-th element
RemoveAt(seq, i) == SubSeq(seq, 1, i - 1) \o SubSeq(seq, i + 1, Len(seq))

\* useMutation(...).mutate: a request leaves for the server
Sent(op, arg) == [op |-> op, arg |-> arg, stage |-> "sent", status |-> 0, data |-> None]

\* the requests in flight once the page has asked to end session id, if it
\* holds one (id is not null)
WithEnd(id) ==
  IF id # None THEN Append(mutations, Sent("end", id[1])) ELSE mutations

\* the page can take an event that may send a request
CanSend == Len(mutations) < MaxInFlight

\* the number of start requests that the server has not served yet
UnservedStarts ==
  Cardinality({i \in DOMAIN mutations :
                 mutations[i].op = "start" /\ mutations[i].stage = "sent"})

\* handleStart (the Start button is rendered while the timer is not running);
\* the effect on [isRunning] then sets the interval up, its callback closing
\* over the handleTimerComplete, and so the currentSessionId, of this render
\* starts is the number of sessions that the page starts in all
HandleStartWithin(starts) ==
  /\ ~isRunning
  /\ CanSend
  /\ IF currentSessionId = None
       THEN /\ nextSessionId + UnservedStarts <= starts
            /\ mutations' = Append(mutations, Sent("start", sessionType))
       ELSE mutations' = mutations
  /\ isRunning' = TRUE
  /\ capturedSessionId' = currentSessionId
  /\ UNCHANGED <<minutes, seconds, sessionType, currentSessionId>>
  /\ UNCHANGED <<origin, clock, habits, focusSessions, nextHabitId,
                 nextSessionId, handler, others, successes, peak>>

HandleStart == HandleStartWithin(MaxStarts)

\* handlePause (the Pause button is rendered while the timer is running); the
\* effect's cleanup clears the interval
HandlePause ==
  /\ isRunning
  /\ isRunning' = FALSE
  /\ capturedSessionId' = None
  /\ UNCHANGED <<minutes, seconds, sessionType, currentSessionId, mutations>>
  /\ UNCHANGED <<origin, clock, habits, focusSessions, nextHabitId,
                 nextSessionId, handler, others, successes, peak>>

\* handleReset
HandleReset ==
  /\ CanSend
  /\ isRunning' = FALSE
  /\ minutes' = InitialMinutes(sessionType)
  /\ seconds' = 0
  /\ mutations' = WithEnd(currentSessionId)
  /\ capturedSessionId' = None
  /\ UNCHANGED <<sessionType, currentSessionId>>
  /\ UNCHANGED <<origin, clock, habits, focusSessions, nextHabitId,
                 nextSessionId, handler, others, successes, peak>>

\* handleSwitchType (the two buttons are disabled while the timer is running)
HandleSwitchType ==
  /\ ~isRunning
  /\ CanSend
  /\ \E type \in SessionTypes :
       /\ sessionType' = type
       /\ minutes' = InitialMinutes(type)
  /\ seconds' = 0
  /\ isRunning' = FALSE
  /\ mutations' = WithEnd(currentSessionId)
  /\ capturedSessionId' = None
  /\ UNCHANGED currentSessionId
  /\ UNCHANGED <<origin, clock, habits, focusSessions, nextHabitId,
                 nextSessionId, handler, others, successes, peak>>

\* the interval's callback, every second while the timer is running: the
\* updater of setSeconds, the updater of setMinutes that it calls at 0
\* seconds, and handleTimerComplete (the one the interval closed over), which
\* that one calls at 0 minutes
Tick ==
  /\ isRunning
  /\ IF seconds = 0
       THEN /\ seconds' = 59
            /\ IF minutes = 0
                 THEN /\ CanSend
                      /\ minutes' = 0
                      /\ isRunning' = FALSE
                      /\ mutations' = WithEnd(capturedSessionId)
                      /\ capturedSessionId' = None
                 ELSE /\ minutes' = minutes - 1
                      /\ UNCHANGED <<isRunning, mutations, capturedSessionId>>
       ELSE /\ seconds' = seconds - 1
            /\ UNCHANGED <<minutes, isRunning, mutations, capturedSessionId>>
  /\ UNCHANGED <<sessionType, currentSessionId>>
  /\ UNCHANGED <<origin, clock, habits, focusSessions, nextHabitId,
                 nextSessionId, handler, others, successes, peak>>

\* GET /api/focus-sessions, the query of the page: the sessions of the store
GetFocusSessions == focusSessions

\* the sum of s.durationMinutes || 0 over the sessions with the given ids
RECURSIVE SumMinutes(_, _)
SumMinutes(sessions, ids) ==
  IF ids = {} THEN 0
  ELSE LET id == CHOOSE i \in ids : TRUE
           d == sessions[id].durationMinutes
       IN (IF d = None THEN 0 ELSE d[1]) + SumMinutes(sessions, ids \ {id})

\* totalMinutes, shown as Minutes Focused
TotalMinutes(sessions) == SumMinutes(sessions, DOMAIN sessions)

\* totalSessions, shown as Sessions Completed
TotalSessions(sessions) ==
  Cardinality({id \in DOMAIN sessions : sessions[id].sessionType = "focus"})

\* the server serves a start request of the page: POST
\* /api/focus-sessions/start
ServeStart ==
  /\ nextSessionId <= MaxSessionIds
  /\ \E i \in DOMAIN mutations :
       /\ mutations[i].op = "start" /\ mutations[i].stage = "sent"
       /\ focusSessions' =
            MapSet(focusSessions, nextSessionId,
                   NewFocusSession(nextSessionId,
                     [startTime |-> clock, sessionType |-> mutations[i].arg,
                      taskId |-> None, endTime |-> None,
                      durationMinutes |-> None], clock))
       /\ mutations' = [mutations EXCEPT ![i] =
            [@ EXCEPT !.stage = "answered", !.status = 201,
                      !.data = Some(nextSessionId)]]
  /\ nextSessionId' = nextSessionId + 1
  /\ UNCHANGED <<minutes, seconds, isRunning, sessionType, currentSessionId,
                 capturedSessionId>>
  /\ UNCHANGED <<origin, clock, habits, nextHabitId, handler, others, successes, peak>>

\* the server serves an end request of the page: POST /api/focus-sessions/end
ServeEnd ==
  /\ \E i \in DOMAIN mutations :
       LET id == mutations[i].arg IN
       /\ mutations[i].op = "end" /\ mutations[i].stage = "sent"
       /\ IF id \in DOMAIN focusSessions
            THEN /\ focusSessions' = UpdateFocusSession(focusSessions, id,
                      [endTime |-> Some(clock),
                       durationMinutes |->
                         Some(DurationMinutes(clock, focusSessions[id].startTime))])
                 /\ mutations' = [mutations EXCEPT ![i] =
                      [@ EXCEPT !.stage = "answered", !.status = 200,
                                !.data = Some(id)]]
            ELSE /\ focusSessions' = focusSessions
                 /\ mutations' = [mutations EXCEPT ![i] =
                      [@ EXCEPT !.stage = "answered", !.status = 404]]
  /\ UNCHANGED <<minutes, seconds, isRunning, sessionType, currentSessionId,
                 capturedSessionId>>
  /\ UNCHANGED <<origin, clock, habits, nextHabitId, nextSessionId, handler,
                 others, successes, peak>>

\* a response reaches the page: onSuccess of startSessionMutation sets
\* currentSessionId to data.id, onSuccess of endSessionMutation sets it to
\* null; a 404 calls neither
Receive ==
  /\ \E i \in DOMAIN mutations :
       /\ mutations[i].stage = "answered"
       /\ currentSessionId' =
            IF mutations[i].status = 404 THEN currentSessionId
            ELSE IF mutations[i].op = "start" THEN mutations[i].data
            ELSE None
       /\ mutations' = RemoveAt(mutations, i)
  /\ UNCHANGED <<minutes, seconds, isRunning, sessionType, capturedSessionId>>
  /\ UNCHANGED <<origin, clock, habits, focusSessions, nextHabitId,
                 nextSessionId, handler, others, successes, peak>>

----------------------------------------------------------------------------

\* the habit routes, with one habit, a daily one, in the store at a time
NextHabits ==
  \/ ClockAdvance(HabitInstants)
  \/ ClockSetBack(HabitInstants)
  \/ \E p \in Sequential : habits = << >> /\ CreateHabit(p, {"daily"})
  \/ \E p \in Sequential : DeleteHabit(p)
  \/ \E p \in Sequential : CheckInGet(p)
  \/ \E p \in Sequential : CheckInResume(p) /\ UNCHANGED <<successes, peak>>

InitHabits == Init /\ clock \in HabitInstants

SpecHabits == InitHabits /\ [][NextHabits]_vars

\* the focus-session routes
NextSessions ==
  \/ ClockAdvance(SessionInstants)
  \/ ClockSetBack(SessionInstants)
  \/ \E p \in Sequential : StartSession(p)
  \/ \E p \in Sequential : EndSessionGet(p)
  \/ \E p \in Sequential : EndSessionResume(p)

InitSessions == Init /\ clock \in SessionInstants /\ origin.month = 11

SpecSessions == InitSessions /\ [][NextSessions]_vars

\* the routes that create records and the routes that change habits and
\* sessions, over the whole store, one request at a time, two days long: at
\* most two habits (weekly ones) at a time, one focus session, one task and
\* one note
NextStore ==
  \/ ClockAdvance(StoreInstants)
  \/ \E p \in Sequential :
       Cardinality(DOMAIN habits) < 2 /\ CreateHabit(p, {"weekly"})
  \/ \E p \in Sequential : DeleteHabit(p)
  \/ \E p \in Sequential : CheckInGet(p)
  \/ \E p \in Sequential : CheckInResume(p) /\ UNCHANGED <<successes, peak>>
  \/ \E p \in Sequential : focusSessions = << >> /\ StartSession(p)
  \/ \E p \in Sequential : EndSessionGet(p)
  \/ \E p \in Sequential : EndSessionResume(p)
  \/ \E p \in Sequential : tasks = << >> /\ CreateTask(p)
  \/ \E p \in Sequential : notes = << >> /\ CreateNote(p)

InitStore == Init /\ clock = 600 * MsPerMinute /\ origin.month = 11

SpecStore == InitStore /\ [][NextStore]_vars

\* check-ins on one daily habit from every connection, the handlers
\* interleaving at their awaits, three days long
NextRace ==
  \/ ClockAdvance(RaceInstants)
  \/ \E p \in Sequential : habits = << >> /\ CreateHabit(p, {"daily"})
  \/ \E p \in Procs : CheckInGet(p)
  \/ \E p \in Procs : CheckInResume(p) /\ UNCHANGED <<successes, peak>>

InitRace == Init /\ clock = 720 * MsPerMinute /\ origin.month = 11

SpecRace == InitRace /\ [][NextRace]_vars

\* check-ins on a daily and a weekly habit over a week, one request at a
\* time, from two connections in turn
NextWeekly ==
  \/ ClockAdvance(WeekInstants)
  \/ \E p \in Sequential :
       Cardinality(DOMAIN habits) < 2 /\ CreateHabit(p, Frequencies)
  \/ \E p \in Procs : (\A q \in Procs : Free(q)) /\ CheckInGet(p)
  \/ \E p \in Procs : CheckInResume(p) /\ UNCHANGED <<successes, peak>>

InitWeekly == Init /\ clock = 720 * MsPerMinute /\ origin.month = 11

SpecWeekly == InitWeekly /\ [][NextWeekly]_vars

\* records deleted while other requests are in flight: the check-in and
\* delete routes of a habit with the handlers of all connections
\* interleaving, and the routes of a task and of a note
NextDelete ==
  \/ \E p \in Sequential : habits = << >> /\ CreateHabit(p, {"daily"})
  \/ \E p \in Procs : DeleteHabit(p)
  \/ \E p \in Procs : CheckInGet(p)
  \/ \E p \in Procs : CheckInResume(p) /\ UNCHANGED <<successes, peak>>
  \/ \E p \in Sequential : CreateTask(p)
  \/ \E p \in Sequential : GetTask(p)
  \/ \E p \in Sequential : PatchTask(p)
  \/ \E p \in Sequential : DeleteTask(p)
  \/ \E p \in Sequential : CreateNote(p)
  \/ \E p \in Sequential : PatchNote(p)
  \/ \E p \in Sequential : DeleteNote(p)

InitDelete == Init /\ clock = 720 * MsPerMinute /\ origin.month = 11

SpecDelete == InitDelete /\ [][NextDelete]_vars

\* the clock shows a time of the first day
FirstDay == clock < MsPerDay

\* the store as a whole, one request at a time, with the PATCH routes: a
\* habit, two sessions, a task and a note, created on the first day
NextIds ==
  \/ ClockAdvance(StoreInstants)
  \/ \E p \in Sequential :
       FirstDay /\ habits = << >> /\ CreateHabit(p, {"daily"})
  \/ \E p \in Sequential : CheckInGet(p)
  \/ \E p \in Sequential : CheckInResume(p) /\ UNCHANGED <<successes, peak>>
  \/ \E p \in Sequential :
       FirstDay /\ Cardinality(DOMAIN focusSessions) < 2 /\ StartSession(p)
  \/ \E p \in Sequential : EndSessionGet(p)
  \/ \E p \in Sequential : EndSessionResume(p)
  \/ \E p \in Sequential : FirstDay /\ tasks = << >> /\ CreateTask(p)
  \/ \E p \in Sequential : PatchTask(p)
  \/ \E p \in Sequential : FirstDay /\ notes = << >> /\ CreateNote(p)
  \/ \E p \in Sequential : PatchNote(p)

SpecIds == InitStore /\ [][NextIds]_vars

\* the days on which a check-in on habit id was answered 200
SuccessDays(id) == IF id \in DOMAIN successes THEN successes[id] ELSE {}

\* the answer of connection p's check-in, when it is 200, is noted with its day
NoteSuccess(p) ==
  successes' =
    IF handler'[p].status = 200
      THEN MapSet(successes, handler[p].id,
                  SuccessDays(handler[p].id) \cup {clock \div MsPerDay})
      ELSE successes

\* the habit routes, one request at a time, under a clock that is not set
\* back, the days of the successful check-ins noted
NextStreak ==
  \/ ClockAdvance(HabitInstants)
  \/ \E p \in Sequential : habits = << >> /\ CreateHabit(p, {"daily"})
  \/ \E p \in Sequential : DeleteHabit(p)
  \/ \E p \in Sequential : CheckInGet(p)
  \/ \E p \in Sequential : CheckInResume(p) /\ NoteSuccess(p) /\ UNCHANGED peak

SpecStreak == InitHabits /\ [][NextStreak]_vars

\* the currentStreak values that the check-in of this step stores are noted
NotePeak ==
  peak' = [id \in HabitIds |->
             IF id \in DOMAIN habits'
               THEN Max(peak[id], habits'[id].currentStreak)
               ELSE peak[id]]

\* the habit routes with the handlers of all connections interleaving, the
\* greatest streak of the habit noted; one habit is created
NextPeak ==
  \/ ClockAdvance(RaceInstants)
  \/ \E p \in Sequential : nextHabitId = 1 /\ CreateHabit(p, {"daily"})
  \/ \E p \in Sequential : DeleteHabit(p)
  \/ \E p \in Procs : CheckInGet(p)
  \/ \E p \in Procs : CheckInResume(p) /\ NotePeak /\ UNCHANGED successes

SpecPeak == InitRace /\ [][NextPeak]_vars

\* the timer page and the focus-session routes that serve it
NextTimer ==
  \/ HandleStart
  \/ HandlePause
  \/ HandleReset
  \/ HandleSwitchType
  \/ Tick
  \/ ServeStart
  \/ ServeEnd
  \/ Receive

InitTimer == Init /\ clock = 600 * MsPerMinute /\ origin.month = 11

SpecTimer == InitTimer /\ [][NextTimer]_vars

\* the countdown has run for fewer than MaxTicks seconds
EarlyInCountdown ==
  minutes * 60 + seconds > InitialMinutes(sessionType) * 60 - MaxTicks

\* the timer page under clicks that come within the first seconds of a
\* countdown, and the focus-session routes that serve it
NextClicks ==
  \/ HandleStartWithin(MaxRestarts)
  \/ HandlePause
  \/ HandleReset
  \/ HandleSwitchType
  \/ EarlyInCountdown /\ Tick
  \/ ServeStart
  \/ ServeEnd
  \/ Receive

SpecClicks == InitTimer /\ [][NextClicks]_vars

----------------------------------------------------------------------------
(* Habit check-in: claims *)

\* the number of the local calendar day of time t, counted from the origin
DayIndex(t) == t \div MsPerDay

\* the step in which the check-in on connection p answers
CheckInAnswers(p) ==
  /\ handler[p].op = "checkIn" /\ handler[p].pc = "await"
  /\ handler'[p].pc = "idle"

\* connection p's last request was a check-in that found the habit and answered
CheckedIn(p) ==
  /\ handler[p].op = "checkIn" /\ handler[p].pc = "idle"
  /\ handler[p].got # None

\* C1: a check-in on a habit whose lastCompletedAt is on the calendar day of
\* now answers 400 and leaves the store as it was (so the second of two
\* check-ins made one after the other on one day fails)
C1_SameDayRejected ==
  [][\A p \in Procs :
       (/\ CheckInAnswers(p)
        /\ handler[p].got # None
        /\ handler[p].got[1].lastCompletedAt # None
        /\ DayIndex(handler[p].got[1].lastCompletedAt[1]) = DayIndex(clock))
       => (/\ handler'[p].status = 400
           /\ habits' = habits)]_vars

\* a second check-in on the day of the first one, almost 24 hours later, was
\* rejected and the habit is as the first check-in left it
C1_Witness ==
  \E p \in Procs :
    /\ CheckedIn(p)
    /\ handler[p].status = 400
    /\ handler[p].id \in DOMAIN habits
    /\ habits[handler[p].id] = handler[p].got[1]
    /\ habits[handler[p].id].currentStreak >= 1
    /\ handler[p].now[1] - habits[handler[p].id].lastCompletedAt[1] = MsPerDay - 1

\* C2: a check-in on a habit whose lastCompletedAt is on the calendar day
\* before the day of now answers 200 and stores currentStreak + 1
C2_ConsecutiveIncrements ==
  [][\A p \in Procs :
       (/\ CheckInAnswers(p)
        /\ handler[p].got # None
        /\ handler[p].got[1].lastCompletedAt # None
        /\ DayIndex(handler[p].got[1].lastCompletedAt[1]) = DayIndex(clock) - 1)
       => (/\ handler'[p].status = 200
           /\ handler'[p].body # None
           /\ handler'[p].body[1].currentStreak = handler[p].got[1].currentStreak + 1
           /\ habits'[handler[p].id].currentStreak
                = handler[p].got[1].currentStreak + 1)]_vars

\* a check-in in the first millisecond of 1 January, one millisecond after the
\* last one on 31 December, raised the streak by one
C2_Witness ==
  \E p \in Procs :
    /\ CheckedIn(p)
    /\ handler[p].status = 200
    /\ handler[p].got[1].lastCompletedAt # None
    /\ handler[p].now[1] - handler[p].got[1].lastCompletedAt[1] = 1
    /\ Fields(origin, handler[p].now[1]).year
         = Fields(origin, handler[p].got[1].lastCompletedAt[1]).year + 1
    /\ handler[p].got[1].currentStreak >= 1
    /\ habits[handler[p].id].currentStreak = handler[p].got[1].currentStreak + 1

\* C3: a check-in on a habit whose lastCompletedAt is two or more calendar
\* days before the day of now answers 200 and stores currentStreak = 1 and
\* bestStreak = max(old bestStreak, 1)
C3_GapResetsToOne ==
  [][\A p \in Procs :
       (/\ CheckInAnswers(p)
        /\ handler[p].got # None
        /\ handler[p].got[1].lastCompletedAt # None
        /\ DayIndex(clock) - DayIndex(handler[p].got[1].lastCompletedAt[1]) >= 2)
       => (/\ handler'[p].status = 200
           /\ habits'[handler[p].id].currentStreak = 1
           /\ habits'[handler[p].id].bestStreak
                = Max(handler[p].got[1].bestStreak, 1))]_vars

\* a streak of two or more was reset to 1 by a check-in two or more days
\* after the last one, and the best streak stayed
C3_Witness ==
  \E p \in Procs :
    /\ CheckedIn(p)
    /\ handler[p].status = 200
    /\ handler[p].got[1].currentStreak >= 2
    /\ DayIndex(handler[p].now[1])
         - DayIndex(handler[p].got[1].lastCompletedAt[1]) >= 2
    /\ habits[handler[p].id].currentStreak = 1
    /\ habits[handler[p].id].bestStreak = handler[p].got[1].bestStreak

\* C4: a check-in on a habit whose lastCompletedAt is null answers 200 and
\* stores currentStreak = 1
C4_FirstCheckIn ==
  [][\A p \in Procs :
       (/\ CheckInAnswers(p)
        /\ handler[p].got # None
        /\ handler[p].got[1].lastCompletedAt = None)
       => (/\ handler'[p].status = 200
           /\ habits'[handler[p].id].currentStreak = 1)]_vars

\* the first check-in on a habit, made some time after the habit was created
C4_Witness ==
  \E p \in Procs :
    /\ CheckedIn(p)
    /\ handler[p].status = 200
    /\ handler[p].got[1].lastCompletedAt = None
    /\ habits[handler[p].id].currentStreak = 1
    /\ habits[handler[p].id].lastCompletedAt = handler[p].now
    /\ habits[handler[p].id].createdAt < handler[p].now[1]

\* C5: every stored habit has bestStreak >= currentStreak >= 0
C5_BestAtLeastCurrent ==
  \A id \in DOMAIN habits :
    /\ habits[id].bestStreak >= habits[id].currentStreak
    /\ habits[id].currentStreak >= 0

\* a habit whose streak was broken: its best streak is above the current one
C5_Witness ==
  \E id \in DOMAIN habits :
    /\ habits[id].currentStreak >= 1
    /\ habits[id].bestStreak > habits[id].currentStreak

\* C6: a check-in that answers 200 stores bestStreak = max(old bestStreak, new
\* currentStreak), and no step lowers the bestStreak of a stored habit
C6_BestNeverDecreases ==
  [][/\ \A p \in Procs :
          (CheckInAnswers(p) /\ handler'[p].status = 200)
          => habits'[handler[p].id].bestStreak
               = Max(habits[handler[p].id].bestStreak,
                     habits'[handler[p].id].currentStreak)
     /\ \A id \in DOMAIN habits \cap DOMAIN habits' :
          habits'[id].bestStreak >= habits[id].bestStreak]_vars

\* the clock was set back behind the last check-in: the check-in reset the
\* streak to 1 and the best streak stayed at 2 or more
C6_Witness ==
  \E p \in Procs :
    /\ CheckedIn(p)
    /\ handler[p].status = 200
    /\ handler[p].got[1].lastCompletedAt # None
    /\ handler[p].got[1].lastCompletedAt[1] > handler[p].now[1]
    /\ habits[handler[p].id].currentStreak = 1
    /\ habits[handler[p].id].bestStreak = handler[p].got[1].bestStreak
    /\ habits[handler[p].id].bestStreak >= 2

\* the fields of a habit that a check-in writes
StreakFields == {"currentStreak", "bestStreak", "lastCompletedAt"}

\* the streak fields of a habit
Streaks(habit) == [k \in StreakFields |-> habit[k]]

\* C16: two check-ins at the same time on habits that have the same streak
\* fields and a different frequency get the same status and, when it is
\* 200, store the same streak fields; and a check-in on a weekly habit seven
\* days after its last one answers 200 and stores currentStreak = 1
C16_FrequencyIgnored ==
  /\ [](\A p, q \in Procs :
          (/\ CheckedIn(p) /\ CheckedIn(q)
           /\ handler[p].got[1].frequency # handler[q].got[1].frequency
           /\ Streaks(handler[p].got[1]) = Streaks(handler[q].got[1])
           /\ handler[p].now = handler[q].now)
          => /\ handler[p].status = handler[q].status
             /\ handler[p].status = 200
                  => Streaks(handler[p].body[1]) = Streaks(handler[q].body[1]))
  /\ [][\A p \in Procs :
          (/\ CheckInAnswers(p)
           /\ handler[p].got # None
           /\ handler[p].got[1].frequency = "weekly"
           /\ handler[p].got[1].lastCompletedAt # None
           /\ DayIndex(clock)
                - DayIndex(handler[p].got[1].lastCompletedAt[1]) = 7)
          => /\ handler'[p].status = 200
             /\ habits'[handler[p].id].currentStreak = 1]_vars

\* a weekly and a daily habit, both with a streak of 2, were checked in seven
\* days after their last check-in: both have a streak of 1
C16_Witness ==
  \E p, q \in Procs :
    /\ CheckedIn(p) /\ CheckedIn(q)
    /\ handler[p].got[1].frequency = "weekly"
    /\ handler[q].got[1].frequency = "daily"
    /\ Streaks(handler[p].got[1]) = Streaks(handler[q].got[1])
    /\ handler[p].got[1].currentStreak = 2
    /\ handler[p].now = handler[q].now
    /\ handler[p].now[1] - handler[p].got[1].lastCompletedAt[1] = 7 * MsPerDay
    /\ handler[p].status = 200 /\ handler[q].status = 200
    /\ habits[handler[p].id].currentStreak = 1
    /\ habits[handler[q].id].currentStreak = 1

\* the number of consecutive days, the last of them day d, that are in days
RECURSIVE RunLength(_, _)
RunLength(days, d) == IF d \in days THEN 1 + RunLength(days, d - 1) ELSE 0

\* C17: with requests handled one at a time and a clock that is not set
\* back, the currentStreak of a habit that has been checked in is the number
\* of consecutive calendar days, the last of them the day of its
\* lastCompletedAt, on each of which a check-in on it was answered 200
C17_StreakCountsConsecutiveDays ==
  \A id \in DOMAIN habits :
    habits[id].lastCompletedAt # None
    => /\ DayIndex(habits[id].lastCompletedAt[1]) \in SuccessDays(id)
       /\ habits[id].currentStreak
            = RunLength(SuccessDays(id),
                        DayIndex(habits[id].lastCompletedAt[1]))

\* a habit checked in on the first day, not on the second, and on the third
\* and the fourth has a streak of 2
C17_Witness ==
  \E id \in DOMAIN habits :
    /\ SuccessDays(id) = {0, 2, 3}
    /\ habits[id].currentStreak = 2
    /\ habits[id].lastCompletedAt # None
    /\ DayIndex(habits[id].lastCompletedAt[1]) = 3

----------------------------------------------------------------------------
(* Concurrent check-ins: claims *)

\* connections p and q hold the answers 200 of two check-ins on one habit
\* that both read the habit before either wrote it
Raced(p, q) ==
  /\ p # q
  /\ CheckedIn(p) /\ CheckedIn(q)
  /\ handler[p].status = 200 /\ handler[q].status = 200
  /\ handler[p].id = handler[q].id
  /\ handler[p].got = handler[q].got

C20_OneSuccessPerDay ==
  \A p, q \in Procs :
    (/\ p # q
     /\ CheckedIn(p) /\ CheckedIn(q)
     /\ handler[p].status = 200 /\ handler[q].status = 200
     /\ handler[p].id = handler[q].id)
    => DayIndex(handler[p].now[1]) # DayIndex(handler[q].now[1])

----------------------------------------------------------------------------
(* Focus sessions: claims *)

\* the step in which the end-session request on connection p answers
EndAnswers(p) ==
  /\ handler[p].op = "endSession" /\ handler[p].pc = "await"
  /\ handler'[p].pc = "idle"

\* connection p's last request was an end that found the session and answered
Ended(p) ==
  /\ handler[p].op = "endSession" /\ handler[p].pc = "idle"
  /\ handler[p].got # None

\* d is the number of whole minutes in ms milliseconds, a part of a minute dropped
WholeMinutes(d, ms) == d * MsPerMinute <= ms /\ ms < (d + 1) * MsPerMinute

\* C7: ending a stored session at time now stores endTime = now and
\* durationMinutes = the whole minutes from startTime to now
C7_EndSetsDuration ==
  [][\A p \in Procs :
       (EndAnswers(p) /\ handler[p].got # None)
       => LET session == focusSessions'[handler[p].id] IN
          /\ handler'[p].status = 200
          /\ session.endTime = Some(clock)
          /\ session.durationMinutes # None
          /\ WholeMinutes(session.durationMinutes[1],
                          clock - focusSessions[handler[p].id].startTime)]_vars

\* a session ended 25 minutes and 30 seconds after its start has 25 minutes
C7_Witness ==
  \E p \in Procs :
    /\ Ended(p)
    /\ handler[p].status = 200
    /\ handler[p].now[1] - handler[p].got[1].startTime = 25 * MsPerMinute + 30000
    /\ focusSessions[handler[p].id].endTime = handler[p].now
    /\ focusSessions[handler[p].id].durationMinutes = Some(25)

\* C8: ending a session that has ended answers 200 and overwrites endTime and
\* durationMinutes, computed from the startTime the session was created
\* with; no step changes the id, startTime or sessionType of a stored session
C8_EndTwiceOverwrites ==
  [][/\ \A p \in Procs :
          (/\ EndAnswers(p)
           /\ handler[p].got # None
           /\ handler[p].got[1].endTime # None)
          => LET session == focusSessions'[handler[p].id] IN
             /\ handler'[p].status = 200
             /\ session.endTime = Some(clock)
             /\ session.durationMinutes
                  = Some((clock - focusSessions[handler[p].id].startTime)
                           \div MsPerMinute)
     /\ \A id \in DOMAIN focusSessions :
          /\ id \in DOMAIN focusSessions'
          /\ focusSessions'[id].id = focusSessions[id].id
          /\ focusSessions'[id].startTime = focusSessions[id].startTime
          /\ focusSessions'[id].sessionType = focusSessions[id].sessionType]_vars

\* a session that had ended was ended again, later: the end time and the
\* duration are the second end's, the start time is the first one
C8_Witness ==
  \E p \in Procs :
    /\ Ended(p)
    /\ handler[p].status = 200
    /\ handler[p].got[1].endTime # None
    /\ handler[p].got[1].endTime[1] < handler[p].now[1]
    /\ focusSessions[handler[p].id].endTime = handler[p].now
    /\ focusSessions[handler[p].id].durationMinutes
         # handler[p].got[1].durationMinutes
    /\ focusSessions[handler[p].id].startTime = handler[p].got[1].startTime

\* C9 as stated: once the endTime of a session is set, no step changes its
\* endTime or its durationMinutes
C9_EndedNeverChanges ==
  [][\A id \in DOMAIN focusSessions :
       focusSessions[id].endTime # None
       => (/\ id \in DOMAIN focusSessions'
           /\ focusSessions'[id].endTime = focusSessions[id].endTime
           /\ focusSessions'[id].durationMinutes
                = focusSessions[id].durationMinutes)]_vars

\* C9 amended: once the endTime of a session is set, its endTime and its
\* durationMinutes are changed only by an end request for that session
C9_EndedChangesOnlyByEnd ==
  [][\A id \in DOMAIN focusSessions :
       focusSessions[id].endTime # None
       => \/ /\ id \in DOMAIN focusSessions'
             /\ focusSessions'[id].endTime = focusSessions[id].endTime
             /\ focusSessions'[id].durationMinutes
                  = focusSessions[id].durationMinutes
          \/ \E p \in Procs :
               /\ EndAnswers(p)
               /\ handler[p].id = id
               /\ focusSessions'[id].endTime = Some(clock)]_vars

\* another session was ended after session 1 had ended, and session 1 has the
\* end time and the duration of its own end
C9_Witness ==
  \E p \in Procs :
    /\ Ended(p)
    /\ handler[p].status = 200
    /\ handler[p].id = 2
    /\ 1 \in DOMAIN focusSessions
    /\ focusSessions[1].endTime # None
    /\ focusSessions[1].endTime # handler[p].now
    /\ focusSessions[1].durationMinutes
         = Some((focusSessions[1].endTime[1] - focusSessions[1].startTime)
                  \div MsPerMinute)

\* C10 as stated: the durationMinutes of every stored session is null or a
\* non-negative integer
C10_DurationNonNegative ==
  \A id \in DOMAIN focusSessions :
    \/ focusSessions[id].durationMinutes = None
    \/ focusSessions[id].durationMinutes[1] >= 0

\* the step in which connection p's start request is served
StartAnswers(p) ==
  /\ handler'[p] # handler[p]
  /\ handler'[p].op = "startSession"

\* C12: a start request stores a new session under an id that was no key,
\* with startTime = now, endTime = null, durationMinutes = null and the
\* sessionType of the request body (focus when the body has none), answers
\* 201 with it, and leaves the sessions that were stored as they were
C12_StartCreatesOpenSession ==
  [][\A p \in Procs :
       StartAnswers(p)
       => LET id == handler'[p].id
              requested == handler'[p].req
          IN /\ id \notin DOMAIN focusSessions
             /\ DOMAIN focusSessions' = DOMAIN focusSessions \cup {id}
             /\ focusSessions'[id].id = id
             /\ focusSessions'[id].startTime = clock
             /\ focusSessions'[id].endTime = None
             /\ focusSessions'[id].durationMinutes = None
             /\ focusSessions'[id].sessionType
                  = (IF requested = None THEN "focus" ELSE requested[1])
             /\ handler'[p].status = 201
             /\ handler'[p].body = Some(focusSessions'[id])
             /\ \A k \in DOMAIN focusSessions :
                  focusSessions'[k] = focusSessions[k]]_vars

\* a second session was started without a sessionType, later than the first
\* one, which has ended: it is an open focus session, the first one is ended
C12_Witness ==
  \E p \in Procs :
    /\ handler[p].op = "startSession" /\ handler[p].pc = "idle"
    /\ handler[p].req = None
    /\ handler[p].id = 2
    /\ DOMAIN focusSessions = {1, 2}
    /\ focusSessions[2].sessionType = "focus"
    /\ focusSessions[2].endTime = None
    /\ focusSessions[2].startTime = clock
    /\ focusSessions[1].sessionType = "break"
    /\ focusSessions[1].endTime # None
    /\ focusSessions[1].startTime < focusSessions[2].startTime

----------------------------------------------------------------------------
(* The store as a whole: claims *)

\* the four Maps and the ids handed out so far
store == <<habits, focusSessions, tasks, notes,
           nextHabitId, nextSessionId, nextTaskId, nextNoteId>>

\* C11: an end-session request for an id that is no key of focusSessions and
\* a check-in request for an id that is no key of habits answer 404, and
\* leave every Map as it was: no record changed, none created
C11_NotFoundChangesNothing ==
  [][\A p \in Procs :
       (\/ EndAnswers(p) /\ handler[p].id \notin DOMAIN focusSessions
        \/ CheckInAnswers(p) /\ handler[p].id \notin DOMAIN habits)
       => (/\ handler'[p].status = 404
           /\ handler'[p].body = None
           /\ store' = store)]_vars

\* a check-in on the id of a habit that was deleted was answered 404, while
\* the store holds another habit, a session, a task and a note
C11_Witness ==
  \E p \in Procs :
    /\ handler[p].op = "checkIn" /\ handler[p].pc = "idle"
    /\ handler[p].status = 404
    /\ handler[p].id \notin DOMAIN habits
    /\ handler[p].id < nextHabitId
    /\ habits # << >> /\ focusSessions # << >>
    /\ tasks # << >> /\ notes # << >>

\* C13: a check-in that answers 200 sets the habit's lastCompletedAt to now,
\* changes no field of it besides currentStreak, bestStreak and
\* lastCompletedAt, and leaves every other habit and every task, session
\* and note as it was
C13_CheckInFrame ==
  [][\A p \in Procs :
       (CheckInAnswers(p) /\ handler'[p].status = 200)
       => LET id == handler[p].id IN
          /\ DOMAIN habits' = DOMAIN habits
          /\ id \in DOMAIN habits
          /\ DOMAIN habits'[id] = DOMAIN habits[id]
          /\ \A k \in DOMAIN habits[id] \ StreakFields :
               habits'[id][k] = habits[id][k]
          /\ habits'[id].lastCompletedAt = Some(clock)
          /\ habits'[id].lastCompletedAt # habits[id].lastCompletedAt
          /\ \A other \in DOMAIN habits \ {id} : habits'[other] = habits[other]
          /\ focusSessions' = focusSessions
          /\ tasks' = tasks
          /\ notes' = notes]_vars

\* a check-in raised the streak of one habit a day after its last check-in,
\* while the store holds another habit that was checked in the day before, a
\* session, a task and a note
C13_Witness ==
  \E p \in Procs :
    /\ CheckedIn(p)
    /\ handler[p].status = 200
    /\ handler[p].id \in DOMAIN habits
    /\ habits[handler[p].id].currentStreak = 2
    /\ habits[handler[p].id].lastCompletedAt = Some(clock)
    /\ habits[handler[p].id].createdAt < clock
    /\ habits[handler[p].id].name = handler[p].got[1].name
    /\ \E other \in DOMAIN habits \ {handler[p].id} :
         /\ habits[other].currentStreak = 1
         /\ habits[other].lastCompletedAt # None
         /\ habits[other].lastCompletedAt[1] < clock
    /\ focusSessions # << >> /\ tasks # << >> /\ notes # << >>

\* the step in which connection p's habit creation is served
CreateHabitAnswers(p) ==
  /\ handler'[p] # handler[p]
  /\ handler'[p].op = "createHabit"

\* C14: a habit is created with currentStreak = 0, bestStreak = 0 and
\* lastCompletedAt = null whatever the request body holds, and a step that
\* changes one of these fields of a stored habit is the answer 200 of a
\* check-in on that habit
C14_StreaksChangeOnlyByCheckIn ==
  [][/\ \A p \in Procs :
          CreateHabitAnswers(p)
          => /\ handler'[p].id \in DOMAIN habits' \ DOMAIN habits
             /\ Streaks(habits'[handler'[p].id])
                  = [currentStreak |-> 0, bestStreak |-> 0,
                     lastCompletedAt |-> None]
     /\ \A id \in DOMAIN habits \cap DOMAIN habits' :
          Streaks(habits'[id]) # Streaks(habits[id])
          => \E p \in Procs :
               /\ CheckInAnswers(p)
               /\ handler[p].id = id
               /\ handler'[p].status = 200]_vars

\* a habit was created from a body that carries currentStreak = 5, bestStreak
\* = 7 and a lastCompletedAt: it has zero streaks and no lastCompletedAt, and
\* the habit that was in the store keeps its streak of 2
C14_Witness ==
  \E p \in Procs :
    /\ handler[p].op = "createHabit" /\ handler[p].pc = "idle"
    /\ handler[p].req # None
    /\ "currentStreak" \in DOMAIN handler[p].req[1]
    /\ handler[p].req[1].currentStreak = 5
    /\ handler[p].id \in DOMAIN habits
    /\ habits[handler[p].id].currentStreak = 0
    /\ habits[handler[p].id].bestStreak = 0
    /\ habits[handler[p].id].lastCompletedAt = None
    /\ \E other \in DOMAIN habits : habits[other].currentStreak = 2

----------------------------------------------------------------------------
(* The timer page: claims *)

\* the remaining time that the page displays, in seconds
Remaining == minutes * 60 + seconds

\* an end request for session id that has left the page and is not served yet
EndSent(id) == [op |-> "end", arg |-> id, stage |-> "sent", status |-> 0, data |-> None]

\* C18: Reset, whatever the state of the page, stops the timer, sets the
\* display to 25:00 in focus mode and 05:00 in break mode and, when the page
\* holds a current session id, sends one end request for that session
C18_ResetStopsAndRestores ==
  [][HandleReset
     => /\ isRunning' = FALSE
        /\ minutes' = (IF sessionType = "focus" THEN 25 ELSE 5)
        /\ seconds' = 0
        /\ sessionType' = sessionType
        /\ currentSessionId # None
             => /\ Len(mutations') = Len(mutations) + 1
                /\ mutations'[Len(mutations')] = EndSent(currentSessionId[1])
                /\ SubSeq(mutations', 1, Len(mutations)) = mutations
        /\ currentSessionId = None => mutations' = mutations]_vars

\* the page is in break mode, stopped at 05:00, holds the id of the break
\* session that the server has stored, and its end request is on the way
C18_Witness ==
  /\ sessionType = "break"
  /\ ~isRunning
  /\ minutes = 5 /\ seconds = 0
  /\ currentSessionId # None
  /\ currentSessionId[1] \in DOMAIN focusSessions
  /\ focusSessions[currentSessionId[1]].sessionType = "break"
  /\ focusSessions[currentSessionId[1]].endTime = None
  /\ mutations = <<EndSent(currentSessionId[1])>>

\* C19 as stated: the display stays within 0..25 minutes and 0..59 seconds;
\* a tick of the running timer takes one second off the remaining time while
\* there is some, and the timer that has reached 00:00 stops and shows
\* 00:00; the remaining time grows by Reset and by a type switch only
C19_CountdownStopsAtZero ==
  /\ [](/\ 0 <= seconds /\ seconds <= 59
        /\ 0 <= minutes /\ minutes <= 25)
  /\ [][/\ (Tick /\ Remaining > 0) => Remaining' = Remaining - 1
        /\ (Tick /\ Remaining = 0) => (~isRunning' /\ Remaining' = 0)
        /\ Remaining' > Remaining => (HandleReset \/ HandleSwitchType)]_vars

\* the session that the page holds the id of is stored and has not ended
HeldSessionOpen ==
  /\ currentSessionId # None
  /\ currentSessionId[1] \in DOMAIN focusSessions
  /\ focusSessions[currentSessionId[1]].endTime = None

\* C21 as stated: the tick that completes the countdown, taken while the
\* page holds the id of a session that is open on the server, sends an end
\* request for that session, also when the id arrived after the interval was
\* set up
C21_CompletionEndsSession ==
  [][(Tick /\ minutes = 0 /\ seconds = 0 /\ HeldSessionOpen)
     => /\ Len(mutations') = Len(mutations) + 1
        /\ mutations'[Len(mutations')] = EndSent(currentSessionId[1])]_vars

\* the sessions that are stored and have not ended
OpenSessions == {id \in DOMAIN focusSessions : focusSessions[id].endTime = None}

\* the page holds session id, or is about to: its start response is on the
\* way to the page
HeldOrArriving(id) ==
  \/ currentSessionId = Some(id)
  \/ \E i \in DOMAIN mutations :
       mutations[i].op = "start" /\ mutations[i].data = Some(id)

\* C22 as stated: at most one session of the page is open on the server,
\* and the page holds the id of every open session (or is about to receive
\* it), under every interleaving of clicks and responses
C22_OneOpenSession ==
  /\ Cardinality(OpenSessions) <= 1
  /\ \A id \in OpenSessions : HeldOrArriving(id)

\* C23 as stated: while the timer is running the page holds a current
\* session id or has a start request in flight
C23_RunningHasSession ==
  isRunning
  => \/ currentSessionId # None
     \/ \E i \in DOMAIN mutations : mutations[i].op = "start"

----------------------------------------------------------------------------
(* Deletion: claims *)

\* connection p's request is answered in this step
Answered(p) == handler'[p] # handler[p] /\ handler'[p].pc = "idle"

\* id was handed out by the collection with counter next and is no longer
\* in the collection map: the record was deleted
Deleted(map, next, id) == id < next /\ id \notin DOMAIN map

\* C24 as stated: a deleted task, habit or note never reappears in the
\* store, and every get, update, delete or check-in on its id that is
\* answered after the deletion reports not found (404), the check-in that
\* was in flight when the delete landed included
C24_DeleteIsPermanent ==
  [][/\ \A id \in HabitIds :
          Deleted(habits, nextHabitId, id)
          => /\ id \notin DOMAIN habits'
             /\ \A p \in Procs :
                  (/\ Answered(p)
                   /\ handler'[p].op \in {"checkIn", "deleteHabit"}
                   /\ handler'[p].id = id)
                  => handler'[p].status = 404
     /\ \A id \in TaskIds :
          Deleted(tasks, nextTaskId, id)
          => /\ id \notin DOMAIN tasks'
             /\ \A p \in Procs :
                  (/\ Answered(p)
                   /\ handler'[p].op \in {"getTask", "patchTask", "deleteTask"}
                   /\ handler'[p].id = id)
                  => handler'[p].status = 404
     /\ \A id \in NoteIds :
          Deleted(notes, nextNoteId, id)
          => /\ id \notin DOMAIN notes'
             /\ \A p \in Procs :
                  (/\ Answered(p)
                   /\ handler'[p].op \in {"patchNote", "deleteNote"}
                   /\ handler'[p].id = id)
                  => handler'[p].status = 404]_vars

----------------------------------------------------------------------------
(* Tasks: claims *)

\* connection p's request, the completion toggle of the tasks page on a
\* stored task, is answered in this step
Toggled(p) ==
  /\ Answered(p)
  /\ handler'[p].op = "patchTask"
  /\ handler'[p].status = 200

\* C25 as stated: the toggle to completed leaves the stored task with
\* status completed and completedAt the time of the toggle, the toggle back
\* with status todo and completedAt null; so the completedAt of every stored
\* task is non-null exactly when its status is completed
C25_ToggleSetsCompletedAt ==
  /\ [][\A p \in Procs :
          Toggled(p)
          => LET body == handler'[p].req[1]
                 task == tasks'[handler'[p].id]
             IN /\ task.status = body.status
                /\ task.completedAt = body.completedAt
                /\ body.status = "completed" => task.completedAt = Some(clock)
                /\ body.status = "todo" => task.completedAt = None]_vars
  /\ [](\A id \in DOMAIN tasks :
          tasks[id].completedAt # None <=> tasks[id].status = "completed")

----------------------------------------------------------------------------
(* Streak fields: claims *)

\* C26 as stated: the bestStreak of every stored habit is the greatest
\* value that its currentStreak has held since the habit was created
C26_BestIsPeak ==
  \A id \in DOMAIN habits : habits[id].bestStreak = peak[id]

\* C27: the currentStreak of every stored habit is 0 exactly when its
\* lastCompletedAt is null, the handlers of all connections interleaving;
\* and the habit that a check-in answered 200 has written has
\* currentStreak >= 1 and a lastCompletedAt
C27_ZeroIffNeverCompleted ==
  /\ [](\A id \in DOMAIN habits :
          habits[id].currentStreak = 0 <=> habits[id].lastCompletedAt = None)
  /\ [][\A p \in Procs :
          (/\ Answered(p)
           /\ handler'[p].op = "checkIn"
           /\ handler'[p].status = 200
           /\ handler'[p].id \in DOMAIN habits')
          => /\ habits'[handler'[p].id].currentStreak >= 1
             /\ habits'[handler'[p].id].lastCompletedAt # None
             /\ handler'[p].body = Some(habits'[handler'[p].id])]_vars

\* a habit that has never been checked in stands beside the state in which
\* two interleaved check-ins on it, over a gap of a day, were answered 200
C27_Witness ==
  \E id \in DOMAIN habits :
    /\ habits[id].currentStreak = 1
    /\ habits[id].lastCompletedAt = Some(2 * MsPerDay + 720 * MsPerMinute)
    /\ handler[1].op = "checkIn" /\ handler[1].status = 200 /\ handler[1].id = id
    /\ handler[2].op = "checkIn" /\ handler[2].status = 200 /\ handler[2].id = id
    /\ handler[1].now # handler[2].now

----------------------------------------------------------------------------
(* Record identity: claims *)

\* every record of the collection map is stored under its own id, and no
\* two of its records have the same id
KeyedById(map) ==
  /\ \A k \in DOMAIN map : map[k].id = k
  /\ \A k, l \in DOMAIN map : map[k].id = map[l].id => k = l

\* the step leaves the id and the createdAt of the records of the
\* collection that it keeps as they are (new is the collection after it)
IdentityKept(map, new) ==
  \A k \in DOMAIN map \cap DOMAIN new :
    new[k].id = map[k].id /\ new[k].createdAt = map[k].createdAt

\* C28: every record of the store is stored under a key equal to its id,
\* ids are pairwise distinct within a collection, and no create, PATCH,
\* check-in or end-session changes the id or the createdAt of a record
C28_IdAndCreatedAtFixed ==
  /\ [](/\ KeyedById(habits) /\ KeyedById(focusSessions)
        /\ KeyedById(tasks) /\ KeyedById(notes))
  /\ [][/\ IdentityKept(habits, habits')
        /\ IdentityKept(focusSessions, focusSessions')
        /\ IdentityKept(tasks, tasks')
        /\ IdentityKept(notes, notes')]_vars

\* two sessions in the store, one of them ended on the second day, and the
\* note, patched on the second day with a body that carried an id and a
\* createdAt, still with its id and the createdAt of the first day
C28_Witness ==
  /\ Cardinality(DOMAIN focusSessions) = 2
  /\ \E id \in DOMAIN focusSessions :
       focusSessions[id].endTime = Some(MsPerDay + 600 * MsPerMinute)
  /\ handler[1].op = "patchNote"
  /\ handler[1].status = 200
  /\ "id" \in DOMAIN handler[1].req[1]
  /\ handler[1].id \in DOMAIN notes
  /\ notes[handler[1].id].id = handler[1].id
  /\ notes[handler[1].id].createdAt = 600 * MsPerMinute
  /\ notes[handler[1].id].updatedAt = MsPerDay + 600 * MsPerMinute

----------------------------------------------------------------------------
(* The timer page's statistics: claims *)

\* the focus sessions among `sessions` that have been ended
EndedFocus(sessions) ==
  {id \in DOMAIN sessions :
     sessions[id].sessionType = "focus" /\ sessions[id].endTime # None}

\* C29 as stated: on a page that shows the sessions of the store, Sessions
\* Completed is the number of focus sessions that have been ended, and
\* Minutes Focused is the sum of durationMinutes over the ended focus
\* sessions
C29_StatsCountEndedFocus ==
  LET sessions == GetFocusSessions
  IN /\ TotalSessions(sessions) = Cardinality(EndedFocus(sessions))
     /\ TotalMinutes(sessions) = SumMinutes(sessions, EndedFocus(sessions))

====
